---- MODULE Spec2Model ----
(***************************************************************************)
(* Model of the geometric oracle of kdtree-demo (src/src/main.rs): the     *)
(* callbacks handed to the kdvtree engine (get_bounding_volume,            *)
(* PointsCutter::cut_point, cut_segment_fragment, bound_to_cut_point_dist, *)
(* bound_to_bound_dist).                                                   *)
(*                                                                         *)
(* f64 values are modelled as pairs <<n, d>>: a reduced fraction n/d with  *)
(* d > 0 for a finite value, <<1, 0>> for +inf, <<-1, 0>> for -inf and     *)
(* <<0, 0>> for NaN, with the IEEE-754 rules for the special values (x/0,  *)
(* inf*0, inf-inf, comparisons with NaN).  Finite results are the exact    *)
(* rationals, which f64 returns correctly rounded: the properties below    *)
(* read comparisons and copies of the inputs, or results f64 represents    *)
(* exactly, or are stated up to that rounding (a mean, a square root).  An *)
(* irrational square root is the triple <<n, d, 2>>, standing for          *)
(* sqrt(n/d).                                                              *)
(***************************************************************************)
EXTENDS Integers, Sequences, FiniteSets, TLC

VARIABLES
    shape,       \* the Segment being subdivided
    fragment,    \* the Bound of the current subtree node
    cut_axis,    \* the Axis argument of the last call
    cut_point,   \* the Point argument of the last cut_segment_fragment call
    result,      \* what the last cut_segment_fragment call returned
    metric,      \* arguments and return value of a distance call
    point_min,   \* PointsCutter.point_min
    point_max,   \* PointsCutter.point_max
    points,      \* the sequence given to the last cut_point call
    mid,         \* what the last cut_point call returned
    cuts         \* VisualCutter.cuts

splitVars == <<shape, fragment, cut_point, result>>

cutterVars == <<point_min, point_max, points, mid, cuts>>

vars == <<shape, fragment, cut_axis, cut_point, result, metric,
          point_min, point_max, points, mid, cuts>>

-----------------------------------------------------------------------------
(* f64 arithmetic *)

RECURSIVE Gcd(_, _)
Gcd(a, b) == IF b = 0 THEN a ELSE Gcd(b, a % b)

AbsInt(n) == IF n < 0 THEN -n ELSE n

Sgn(n) == IF n < 0 THEN -1 ELSE IF n > 0 THEN 1 ELSE 0

Norm(n, d) ==
    IF d = 0 THEN <<Sgn(n), 0>>
    ELSE LET g == Gcd(AbsInt(n), AbsInt(d))
             s == IF d < 0 THEN -1 ELSE 1
         IN  <<(s * n) \div g, (s * d) \div g>>

F(n) == <<n, 1>>

NaN == <<0, 0>>

IsNaN(a) == a = NaN

IsInf(a) == a[2] = 0 /\ a[1] # 0

IsFinite(a) == a[2] # 0

FNeg(a) == <<-a[1], a[2]>>

FAdd(a, b) ==
    IF IsNaN(a) \/ IsNaN(b) THEN NaN
    ELSE IF IsInf(a) /\ IsInf(b) THEN (IF a = b THEN a ELSE NaN)
    ELSE IF IsInf(a) THEN a
    ELSE IF IsInf(b) THEN b
    ELSE Norm(a[1] * b[2] + b[1] * a[2], a[2] * b[2])

FSub(a, b) == FAdd(a, FNeg(b))

FMul(a, b) == Norm(a[1] * b[1], a[2] * b[2])

FDiv(a, b) == FMul(a, Norm(b[2], b[1]))

FLt(a, b) ==
    IF IsNaN(a) \/ IsNaN(b) THEN FALSE
    ELSE IF IsInf(a) /\ IsInf(b) THEN a[1] < b[1]
    ELSE IF IsInf(a) THEN a[1] < 0
    ELSE IF IsInf(b) THEN b[1] > 0
    ELSE a[1] * b[2] < b[1] * a[2]

FGt(a, b) == FLt(b, a)

FEq(a, b) == ~IsNaN(a) /\ ~IsNaN(b) /\ a = b

FLe(a, b) == FLt(a, b) \/ FEq(a, b)

FGe(a, b) == FLe(b, a)

FAbs(a) == <<AbsInt(a[1]), a[2]>>

IsSquare(n) == \E r \in 0..n : r * r = n

IntRoot(n) == CHOOSE r \in 0..n : r * r = n

FSqrt(a) ==
    IF IsNaN(a) \/ a[1] < 0 THEN NaN
    ELSE IF IsInf(a) THEN a
    ELSE IF IsSquare(a[1]) /\ IsSquare(a[2]) THEN <<IntRoot(a[1]), IntRoot(a[2])>>
    ELSE <<a[1], a[2], 2>>

-----------------------------------------------------------------------------
(* Geometry types *)

Point(x, y) == [x |-> x, y |-> y]

P(i, j) == Point(F(i), F(j))

Segment(src, dst) == [src |-> src, dst |-> dst]

Bound(lt, rb) == [lt |-> lt, rb |-> rb]

Axis == {"X", "Y"}

KDTREE_CUT_LIMIT == 32

\* Mutant of get_bounding_volume: rb.y repeats the comparison of lt.y.
get_bounding_volume_copied(s) ==
    Bound(Point(IF FLt(s.src.x, s.dst.x) THEN s.src.x ELSE s.dst.x,
                IF FLt(s.src.y, s.dst.y) THEN s.src.y ELSE s.dst.y),
          Point(IF FGt(s.src.x, s.dst.x) THEN s.src.x ELSE s.dst.x,
                IF FLt(s.src.y, s.dst.y) THEN s.src.y ELSE s.dst.y))

get_bounding_volume(s) ==
    Bound(Point(IF FLt(s.src.x, s.dst.x) THEN s.src.x ELSE s.dst.x,
                IF FLt(s.src.y, s.dst.y) THEN s.src.y ELSE s.dst.y),
          Point(IF FGt(s.src.x, s.dst.x) THEN s.src.x ELSE s.dst.x,
                IF FGt(s.src.y, s.dst.y) THEN s.src.y ELSE s.dst.y))

-----------------------------------------------------------------------------
(* cut_segment_fragment *)

None == [tag |-> "None", pair |-> <<>>]

Some(a, b) == [tag |-> "Some", pair |-> <<a, b>>]

Pending == [tag |-> "Pending", pair |-> <<>>]

\* Mutant of in_fragment: the comparison with fragment.lt is missing.
in_fragment_no_lower(c, lo, hi) == FLe(c, hi)

in_fragment(c, lo, hi) == FGe(c, lo) /\ FLe(c, hi)

below_cut_limit(lo, hi) == FLt(FSub(hi, lo), F(KDTREE_CUT_LIMIT))

factor_x(s, cp) == FDiv(FSub(cp.x, s.src.x), FSub(s.dst.x, s.src.x))

interp_y(s, cp) == FAdd(s.src.y, FMul(factor_x(s, cp), FSub(s.dst.y, s.src.y)))

\* Mutant of left_point: the endpoints are taken the other way round.
left_point_swapped(s) == IF FLt(s.src.x, s.dst.x) THEN s.dst ELSE s.src

left_point(s) == IF FLt(s.src.x, s.dst.x) THEN s.src ELSE s.dst

right_point(s) == IF FLt(s.src.x, s.dst.x) THEN s.dst ELSE s.src

\* Mutant of left_bound: rb.x keeps the fragment's limit instead of the cut.
left_bound_unsliced(s, f, cp) ==
    LET y == interp_y(s, cp)
    IN  Bound(Point(f.lt.x, IF FLt(left_point(s).y, y) THEN f.lt.y ELSE y),
              Point(f.rb.x, IF FLt(left_point(s).y, y) THEN y ELSE f.rb.y))

left_bound(s, f, cp) ==
    LET y == interp_y(s, cp)
    IN  Bound(Point(f.lt.x, IF FLt(left_point(s).y, y) THEN f.lt.y ELSE y),
              Point(cp.x, IF FLt(left_point(s).y, y) THEN y ELSE f.rb.y))

right_bound(s, f, cp) ==
    LET y == interp_y(s, cp)
    IN  Bound(Point(cp.x, IF FLt(right_point(s).y, y) THEN f.lt.y ELSE y),
              Point(f.rb.x, IF FLt(right_point(s).y, y) THEN y ELSE f.rb.y))

factor_y(s, cp) == FDiv(FSub(cp.y, s.src.y), FSub(s.dst.y, s.src.y))

interp_x(s, cp) == FAdd(s.src.x, FMul(factor_y(s, cp), FSub(s.dst.x, s.src.x)))

upper_point(s) == IF FLt(s.src.y, s.dst.y) THEN s.src ELSE s.dst

lower_point(s) == IF FLt(s.src.y, s.dst.y) THEN s.dst ELSE s.src

upper_bound(s, f, cp) ==
    LET x == interp_x(s, cp)
    IN  Bound(Point(IF FLt(upper_point(s).x, x) THEN f.lt.x ELSE x, f.lt.y),
              Point(IF FLt(upper_point(s).x, x) THEN x ELSE f.rb.x, cp.y))

lower_bound(s, f, cp) ==
    LET x == interp_x(s, cp)
    IN  Bound(Point(IF FLt(lower_point(s).x, x) THEN f.lt.x ELSE x, cp.y),
              Point(IF FLt(lower_point(s).x, x) THEN x ELSE f.rb.x, f.rb.y))

cut_segment_fragment(s, f, axis, cp) ==
    IF axis = "X"
    THEN IF in_fragment(cp.x, f.lt.x, f.rb.x)
         THEN IF below_cut_limit(f.lt.x, f.rb.x)
              THEN None
              ELSE Some(left_bound(s, f, cp), right_bound(s, f, cp))
         ELSE None
    ELSE IF in_fragment(cp.y, f.lt.y, f.rb.y)
         THEN IF below_cut_limit(f.lt.y, f.rb.y)
              THEN None
              ELSE Some(upper_bound(s, f, cp), lower_bound(s, f, cp))
         ELSE None

-----------------------------------------------------------------------------
(* bound_to_cut_point_dist, bound_to_bound_dist *)

bound_to_cut_point_dist(axis, bounding_volume, cp) ==
    IF axis = "X"
    THEN LET l == FAbs(FSub(bounding_volume.lt.x, cp.x))
             r == FAbs(FSub(bounding_volume.rb.x, cp.x))
         IN  IF FLt(l, r) THEN l ELSE r
    ELSE LET t == FAbs(FSub(bounding_volume.lt.y, cp.y))
             b == FAbs(FSub(bounding_volume.rb.y, cp.y))
         IN  IF FLt(t, b) THEN t ELSE b

dist(xa, ya, xb, yb) ==
    FSqrt(FAdd(FMul(FSub(xb, xa), FSub(xb, xa)), FMul(FSub(yb, ya), FSub(yb, ya))))

\* Mutant of left: b's left edge is compared instead of its right edge.
left_wrong_edge(bv_a, bv_b) == FLt(bv_b.lt.x, bv_a.lt.x)

left(bv_a, bv_b) == FLt(bv_b.rb.x, bv_a.lt.x)

right(bv_a, bv_b) == FLt(bv_a.rb.x, bv_b.lt.x)

\* Mutant of top: a's upper edge is compared instead of its lower edge.
top_wrong_edge(bv_a, bv_b) == FLt(bv_a.lt.y, bv_b.lt.y)

top(bv_a, bv_b) == FLt(bv_a.rb.y, bv_b.lt.y)

bottom(bv_a, bv_b) == FLt(bv_b.rb.y, bv_a.lt.y)

bound_to_bound_dist(bv_a, bv_b) ==
    IF top(bv_a, bv_b) /\ left(bv_a, bv_b)
    THEN dist(bv_a.lt.x, bv_a.rb.y, bv_b.rb.x, bv_b.lt.y)
    ELSE IF left(bv_a, bv_b) /\ bottom(bv_a, bv_b)
    THEN dist(bv_a.lt.x, bv_a.lt.y, bv_b.rb.x, bv_b.rb.y)
    ELSE IF bottom(bv_a, bv_b) /\ right(bv_a, bv_b)
    THEN dist(bv_a.rb.x, bv_a.lt.y, bv_b.lt.x, bv_b.rb.y)
    ELSE IF right(bv_a, bv_b) /\ top(bv_a, bv_b)
    THEN dist(bv_a.rb.x, bv_a.rb.y, bv_b.lt.x, bv_b.lt.y)
    ELSE IF left(bv_a, bv_b) THEN FSub(bv_a.lt.x, bv_b.rb.x)
    ELSE IF right(bv_a, bv_b) THEN FSub(bv_b.lt.x, bv_a.rb.x)
    ELSE IF bottom(bv_a, bv_b) THEN FSub(bv_a.lt.y, bv_b.rb.y)
    ELSE IF top(bv_a, bv_b) THEN FSub(bv_b.lt.y, bv_a.rb.y)
    ELSE F(0)

-----------------------------------------------------------------------------
(* PointsCutter::cut_point.  Option<Point> is <<>> (None) or <<p>> (Some). *)

\* Mutant of reset_cutter: point_min and point_max are not cleared.
reset_cutter_missing(c) == c

reset_cutter(c) == [c EXCEPT !.point_min = <<>>, !.point_max = <<>>]

get_or_insert(opt, p) == IF opt = <<>> THEN p ELSE opt[1]

\* One iteration of the loop over the points (lines 431-439).
cut_step(c, p) ==
    LET pmin == get_or_insert(c.point_min, p)
        pmax == get_or_insert(c.point_max, p)
    IN  [point_min |-> <<Point(IF FLt(p.x, pmin.x) THEN p.x ELSE pmin.x,
                               IF FLt(p.y, pmin.y) THEN p.y ELSE pmin.y)>>,
         point_max |-> <<Point(IF FGt(p.x, pmax.x) THEN p.x ELSE pmax.x,
                               IF FGt(p.y, pmax.y) THEN p.y ELSE pmax.y)>>,
         point_sum |-> Point(FAdd(c.point_sum.x, p.x), FAdd(c.point_sum.y, p.y)),
         total     |-> c.total + 1]

RECURSIVE cut_loop(_, _)
cut_loop(c, ps) == IF ps = <<>> THEN c ELSE cut_loop(cut_step(c, Head(ps)), Tail(ps))

\* Mutant of cut_return: the midpoint of point_min and point_max instead of
\* the mean of the points.
cut_return_midpoint(c) ==
    IF c.total = 0
    THEN [tag |-> "None", v |-> <<>>]
    ELSE [tag |-> "Some",
          v |-> <<Point(FDiv(FAdd(c.point_min[1].x, c.point_max[1].x), F(2)),
                        FDiv(FAdd(c.point_min[1].y, c.point_max[1].y), F(2)))>>]

cut_return(c) ==
    IF c.total = 0
    THEN [tag |-> "None", v |-> <<>>]
    ELSE [tag |-> "Some",
          v |-> <<Point(FDiv(c.point_sum.x, F(c.total)), FDiv(c.point_sum.y, F(c.total)))>>]

\* The cutter's fields and locals when the call returns.
cut_point_run(pmin, pmax, ps) ==
    cut_loop(reset_cutter([point_min |-> pmin, point_max |-> pmax,
                           point_sum |-> P(0, 0), total |-> 0]), ps)

-----------------------------------------------------------------------------
(* Values of the variables a specification does not use. *)

NoCall == [tag |-> "Pending", v |-> <<>>]

NoMetric == [op |-> "none", axis |-> "X", a |-> Bound(P(0, 0), P(0, 0)),
             b |-> Bound(P(0, 0), P(0, 0)), point |-> P(0, 0), dist |-> <<>>]

\* The well-formed boxes with corners in S.
BoundsOver(S) ==
    {bv \in {Bound(a, b) : a \in S, b \in S} : FLe(bv.lt.x, bv.rb.x) /\ FLe(bv.lt.y, bv.rb.y)}

IdleSplit ==
    /\ shape = Segment(P(0, 0), P(0, 0))
    /\ fragment = Bound(P(0, 0), P(0, 0))
    /\ cut_point = P(0, 0)
    /\ result = Pending

IdleCutter ==
    /\ point_min = <<>>
    /\ point_max = <<>>
    /\ points = <<>>
    /\ mid = NoCall
    /\ cuts = <<>>

-----------------------------------------------------------------------------
(* Recursive subdivision of one shape's bounding volume, as the engine     *)
(* drives it: cut the current fragment, then descend into a child.         *)

GridUnit == KDTREE_CUT_LIMIT \div 2

GridSize == 4

Grid == {GridUnit * k : k \in 0..GridSize}

GridPoints == {P(i, j) : i \in Grid, j \in Grid}

GridSegments == {Segment(a, b) : a \in GridPoints, b \in GridPoints}

\* The engine's cut points: cut_segment_fragment reads only the coordinate
\* of the cut axis, so the other coordinate takes the same value.
CutPoints == {P(c, c) : c \in Grid}

Init ==
    /\ shape \in GridSegments
    /\ fragment = get_bounding_volume(shape)
    /\ cut_axis = "X"
    /\ cut_point = P(0, 0)
    /\ result = Pending
    /\ metric = NoMetric
    /\ IdleCutter

Cut(axis, cp) ==
    /\ cut_axis' = axis
    /\ cut_point' = cp
    /\ result' = cut_segment_fragment(shape, fragment, axis, cp)
    /\ UNCHANGED <<shape, fragment, metric, cutterVars>>

Descend(i) ==
    /\ result.tag = "Some"
    /\ fragment' = result.pair[i]
    /\ result' = Pending
    /\ UNCHANGED <<shape, cut_axis, cut_point, metric, cutterVars>>

Next ==
    \/ \E axis \in Axis, cp \in CutPoints : Cut(axis, cp)
    \/ \E i \in 1..2 : Descend(i)

Spec == Init /\ [][Next]_vars

-----------------------------------------------------------------------------
(* cut_segment_fragment called on any shape, well-formed fragment, axis    *)
(* and cut point over CallCoords.  The claims checked here read the        *)
(* branch taken, the split-axis coordinates and interpolations that are    *)
(* exact in f64.                                                           *)

CallCoords == {0, 5, 10, 40}

CallPoints == {P(i, j) : i \in CallCoords, j \in CallCoords}

CallSegments == {Segment(a, b) : a \in CallPoints, b \in CallPoints}

CallBounds == BoundsOver(CallPoints)

CallInit ==
    /\ shape \in CallSegments
    /\ fragment \in CallBounds
    /\ cut_axis \in Axis
    /\ cut_point \in {P(c, c) : c \in CallCoords}
    /\ result = Pending
    /\ metric = NoMetric
    /\ IdleCutter

CallCut ==
    /\ result = Pending
    /\ result' = cut_segment_fragment(shape, fragment, cut_axis, cut_point)
    /\ UNCHANGED <<shape, fragment, cut_axis, cut_point, metric, cutterVars>>

CallNext == CallCut

CallSpec == CallInit /\ [][CallNext]_vars

-----------------------------------------------------------------------------
(* The distance callbacks called on well-formed boxes and points.          *)

MetricXs == {0, 1, 3, 5}

MetricYs == {0, 1, 4, 6}

MetricPoints == {P(i, j) : i \in MetricXs, j \in MetricYs}

MetricBounds == BoundsOver(MetricPoints)

MetricCutPoints == {P(0, 0), P(1, 1), P(3, 4), P(5, 6)}

MetricInit ==
    /\ metric \in {[NoMetric EXCEPT !.op = "bound_to_bound_dist", !.a = a, !.b = b] :
                      a \in MetricBounds, b \in MetricBounds}
               \cup {[NoMetric EXCEPT !.op = "bound_to_cut_point_dist", !.axis = ax,
                                      !.a = a, !.point = p] :
                      ax \in Axis, a \in MetricBounds, p \in MetricCutPoints}
    /\ cut_axis = "X"
    /\ IdleSplit
    /\ IdleCutter

BoundToBoundDist ==
    /\ metric.op = "bound_to_bound_dist"
    /\ metric.dist = <<>>
    /\ metric' = [metric EXCEPT !.dist = <<bound_to_bound_dist(metric.a, metric.b)>>]
    /\ UNCHANGED <<cut_axis, splitVars, cutterVars>>

BoundToCutPointDist ==
    /\ metric.op = "bound_to_cut_point_dist"
    /\ metric.dist = <<>>
    /\ metric' = [metric EXCEPT
                     !.dist = <<bound_to_cut_point_dist(metric.axis, metric.a, metric.point)>>]
    /\ UNCHANGED <<cut_axis, splitVars, cutterVars>>

MetricNext == BoundToBoundDist \/ BoundToCutPointDist

MetricSpec == MetricInit /\ [][MetricNext]_vars

-----------------------------------------------------------------------------
(* A PointsCutter over its lifetime: any sequence of cut_point calls.      *)

MaxPoints == 3

CutterPoints == {P(0, 0), P(10, 0), P(5, 10), P(10, 10)}

RECURSIVE SeqsUpTo(_, _)
SeqsUpTo(S, n) ==
    IF n = 0 THEN {<<>>}
    ELSE LET shorter == SeqsUpTo(S, n - 1)
         IN  shorter \cup {Append(q, e) : q \in {r \in shorter : Len(r) = n - 1}, e \in S}

PointSeqs == SeqsUpTo(CutterPoints, MaxPoints)

CutterInit ==
    /\ IdleCutter
    /\ cut_axis = "X"
    /\ IdleSplit
    /\ metric = NoMetric

CutPointCall(axis, ps) ==
    LET c == cut_point_run(point_min, point_max, ps)
    IN  /\ cut_axis' = axis
        /\ points' = ps
        /\ point_min' = c.point_min
        /\ point_max' = c.point_max
        /\ mid' = cut_return(c)
        /\ UNCHANGED <<splitVars, metric, cuts>>

CutterNext == \E axis \in Axis, ps \in PointSeqs : CutPointCall(axis, ps)

CutterSpec == CutterInit /\ [][CutterNext]_vars

-----------------------------------------------------------------------------
(* A VisualCutter over its lifetime: cut_point calls that go through to    *)
(* its base_cutter (point_min, point_max) and record the cut in cuts.      *)

MaxCuts == 2

VisualSeqs ==
    {<<>>, <<P(10, 0)>>, <<P(5, 10)>>, <<P(10, 0), P(5, 10)>>, <<P(5, 10), P(10, 0)>>}

\* The segment drawn for a cut at point_mid (lines 585-594).
cut_seg(axis, point_mid, pmin, pmax) ==
    IF axis = "X"
    THEN Segment(Point(point_mid.x, pmin.y), Point(point_mid.x, pmax.y))
    ELSE Segment(Point(pmin.x, point_mid.y), Point(pmax.x, point_mid.y))

\* cuts after the call, given the base cutter's state c on its return.
visual_cuts(vc, axis, c) ==
    IF cut_return(c).tag = "Some" /\ c.point_min # <<>> /\ c.point_max # <<>>
    THEN Append(vc, <<cut_seg(axis, cut_return(c).v[1], c.point_min[1], c.point_max[1]), axis>>)
    ELSE vc

VisualInit ==
    /\ IdleCutter
    /\ cut_axis = "X"
    /\ IdleSplit
    /\ metric = NoMetric

VisualCutPoint(axis, ps) ==
    LET c == cut_point_run(point_min, point_max, ps)
    IN  /\ Len(visual_cuts(cuts, axis, c)) <= MaxCuts
        /\ cut_axis' = axis
        /\ points' = ps
        /\ point_min' = c.point_min
        /\ point_max' = c.point_max
        /\ cuts' = visual_cuts(cuts, axis, c)
        /\ mid' = cut_return(c)
        /\ UNCHANGED <<splitVars, metric>>

VisualNext == \E axis \in Axis, ps \in VisualSeqs : VisualCutPoint(axis, ps)

VisualSpec == VisualInit /\ [][VisualNext]_vars

-----------------------------------------------------------------------------
(* Vocabulary of the properties *)

Coord(p, axis) == IF axis = "X" THEN p.x ELSE p.y

OtherAxis(axis) == IF axis = "X" THEN "Y" ELSE "X"

WellFormed(bv) == FLe(bv.lt.x, bv.rb.x) /\ FLe(bv.lt.y, bv.rb.y)

AxisExtent(bv, axis) == FSub(Coord(bv.rb, axis), Coord(bv.lt, axis))

\* src and dst have the same coordinate on the axis.
ParallelToCutAxis(s, axis) == Coord(s.src, axis) = Coord(s.dst, axis)

CutOutside ==
    \/ FLt(Coord(cut_point, cut_axis), Coord(fragment.lt, cut_axis))
    \/ FGt(Coord(cut_point, cut_axis), Coord(fragment.rb, cut_axis))

CutStrictlyInside ==
    /\ FGt(Coord(cut_point, cut_axis), Coord(fragment.lt, cut_axis))
    /\ FLt(Coord(cut_point, cut_axis), Coord(fragment.rb, cut_axis))

ExtentBelowLimit == FLt(AxisExtent(fragment, cut_axis), F(KDTREE_CUT_LIMIT))

Returned == result.tag # "Pending"

FMin(a, b) == IF FLt(b, a) THEN b ELSE a

FMax(a, b) == IF FGt(b, a) THEN b ELSE a

\* The children slice f at the cut coordinate, their hull is f, and both
\* are boxes, so that they meet only on the line at the cut coordinate.
ExactPartition(f, pair, axis, cp) ==
    LET o == OtherAxis(axis)
    IN  /\ Coord(pair[1].lt, axis) = Coord(f.lt, axis)
        /\ Coord(pair[1].rb, axis) = Coord(cp, axis)
        /\ Coord(pair[2].lt, axis) = Coord(cp, axis)
        /\ Coord(pair[2].rb, axis) = Coord(f.rb, axis)
        /\ FMin(Coord(pair[1].lt, o), Coord(pair[2].lt, o)) = Coord(f.lt, o)
        /\ FMax(Coord(pair[1].rb, o), Coord(pair[2].rb, o)) = Coord(f.rb, o)
        /\ WellFormed(pair[1])
        /\ WellFormed(pair[2])

-----------------------------------------------------------------------------
C2_ExactPartition ==
    (/\ result.tag = "Some"
     /\ WellFormed(fragment)
     /\ ~ParallelToCutAxis(shape, "X")
     /\ ~ParallelToCutAxis(shape, "Y")
     /\ ~ExtentBelowLimit
     /\ CutStrictlyInside)
        => ExactPartition(fragment, result.pair, cut_axis, cut_point)

(* C3: the bounding volume of every segment and every child returned by    *)
(* cut_segment_fragment after any sequence of splits starting from it has  *)
(* lt.x <= rb.x and lt.y <= rb.y.                                          *)
C3_BoundsWellFormed ==
    /\ WellFormed(get_bounding_volume(shape))
    /\ result.tag = "Some" => WellFormed(result.pair[1]) /\ WellFormed(result.pair[2])

(* C4 as stated: whenever a pair of children is returned, each child has a *)
(* strictly smaller extent on the split axis than the parent fragment.     *)
C4_ChildrenStrictlySmaller ==
    result.tag = "Some" =>
        \A i \in 1..2 :
            FLt(AxisExtent(result.pair[i], cut_axis), AxisExtent(fragment, cut_axis))

(* C4 amended: each child's extent on the split axis is at most the        *)
(* parent's; both are strictly smaller when the cut coordinate is strictly *)
(* inside the parent's extent, and a cut on the parent's boundary returns  *)
(* one child of extent zero and one with the parent's whole extent.        *)
C4_ChildrenNoLarger ==
    result.tag = "Some" =>
        /\ \A i \in 1..2 :
              /\ FLe(AxisExtent(result.pair[i], cut_axis), AxisExtent(fragment, cut_axis))
              /\ CutStrictlyInside =>
                    FLt(AxisExtent(result.pair[i], cut_axis), AxisExtent(fragment, cut_axis))
        /\ ~CutStrictlyInside =>
              \E i \in 1..2 :
                 /\ AxisExtent(result.pair[i], cut_axis) = F(0)
                 /\ AxisExtent(result.pair[3 - i], cut_axis) = AxisExtent(fragment, cut_axis)

C4_Witness ==
    /\ result.tag = "Some"
    /\ CutStrictlyInside
    /\ FGt(AxisExtent(result.pair[1], cut_axis), F(0))

(* C5: bound_to_cut_point_dist is an admissible lower bound: it is at most *)
(* the distance along the axis from any location q inside the bound to the *)
(* cut coordinate, also when the cut coordinate lies between lt and rb.    *)
C5_AdmissibleLowerBound ==
    (metric.op = "bound_to_cut_point_dist" /\ metric.dist # <<>>) =>
        \A q \in MetricPoints :
            (/\ FLe(metric.a.lt.x, q.x) /\ FLe(q.x, metric.a.rb.x)
             /\ FLe(metric.a.lt.y, q.y) /\ FLe(q.y, metric.a.rb.y))
                => FLe(metric.dist[1],
                       FAbs(FSub(Coord(q, metric.axis), Coord(metric.point, metric.axis))))

\* The gap between the intervals [alo, ahi] and [blo, bhi]: max(0, alo - bhi, blo - ahi).
Gap(alo, ahi, blo, bhi) == FMax(F(0), FMax(FSub(alo, bhi), FSub(blo, ahi)))

MinBoxDistance(a, b) ==
    LET dx == Gap(a.lt.x, a.rb.x, b.lt.x, b.rb.x)
        dy == Gap(a.lt.y, a.rb.y, b.lt.y, b.rb.y)
    IN  FSqrt(FAdd(FMul(dx, dx), FMul(dy, dy)))

BoxesMeet(a, b) ==
    /\ FLe(a.lt.x, b.rb.x) /\ FLe(b.lt.x, a.rb.x)
    /\ FLe(a.lt.y, b.rb.y) /\ FLe(b.lt.y, a.rb.y)

BoundDistReturned == metric.op = "bound_to_bound_dist" /\ metric.dist # <<>>

(* C6: for well-formed boxes a and b, bound_to_bound_dist(a, b) is the     *)
(* minimum Euclidean distance sqrt(dx^2 + dy^2) of the two boxes, dx and   *)
(* dy being the gaps on each axis: zero when the boxes overlap or touch    *)
(* (so for b = a), and sqrt(13) for a = (0,0)-(1,1), b = (3,4)-(5,6).      *)
C6_MinimumBoxDistance ==
    BoundDistReturned =>
        /\ metric.dist[1] = MinBoxDistance(metric.a, metric.b)
        /\ BoxesMeet(metric.a, metric.b) => metric.dist[1] = F(0)
        /\ (metric.a = Bound(P(0, 0), P(1, 1)) /\ metric.b = Bound(P(3, 4), P(5, 6)))
              => metric.dist[1] = <<13, 1, 2>>

C6_Witness ==
    /\ BoundDistReturned
    /\ metric.a = Bound(P(0, 0), P(1, 1))
    /\ metric.b = Bound(P(3, 4), P(5, 6))
    /\ metric.dist = <<(<<13, 1, 2>>)>>

(* C7: bound_to_bound_dist is symmetric: the value returned for (a, b) is  *)
(* the value of bound_to_bound_dist(b, a).                                 *)
C7_Symmetric ==
    BoundDistReturned => metric.dist[1] = bound_to_bound_dist(metric.b, metric.a)

\* a lies to the upper left of b at a positive distance (branch right && top).
C7_Witness ==
    /\ BoundDistReturned
    /\ FLt(metric.a.rb.x, metric.b.lt.x)
    /\ FLt(metric.a.rb.y, metric.b.lt.y)
    /\ metric.a # metric.b
    /\ FGt(bound_to_bound_dist(metric.b, metric.a), F(0))

Scenario ==
    /\ shape = Segment(P(0, 0), P(10, 10))
    /\ fragment = Bound(P(0, 0), P(10, 10))
    /\ cut_axis = "X"
    /\ cut_point.x = F(5)

\* The scenario with the segment and the fragment reaching KDTREE_CUT_LIMIT.
ScenarioAboveLimit ==
    /\ shape = Segment(P(0, 0), P(40, 40))
    /\ fragment = Bound(P(0, 0), P(40, 40))
    /\ cut_axis = "X"
    /\ cut_point.x = F(10)

(* C8 as stated: for Segment (0,0)-(10,10), fragment (0,0)-(10,10), axis X *)
(* and cut x = 5, cut_segment_fragment returns the children (0,0)-(5,5)    *)
(* and (5,5)-(10,10).                                                      *)
C8_ScenarioChildren ==
    (Scenario /\ Returned) =>
        result = Some(Bound(P(0, 0), P(5, 5)), Bound(P(5, 5), P(10, 10)))

(* C8 amended: in that scenario the extent 10 is below KDTREE_CUT_LIMIT    *)
(* (32) and the call returns Ok(None); for Segment (0,0)-(40,40), fragment *)
(* (0,0)-(40,40), axis X and cut x = 10 it interpolates y = 10 and returns *)
(* the children (0,0)-(10,10) and (10,10)-(40,40).                         *)
C8_ScenarioBelowLimit ==
    /\ (Scenario /\ Returned) => result = None
    /\ (ScenarioAboveLimit /\ Returned) =>
          result = Some(Bound(P(0, 0), P(10, 10)), Bound(P(10, 10), P(40, 40)))

C8_Witness ==
    /\ ScenarioAboveLimit
    /\ result.tag = "Some"
    /\ result.pair[1].rb.y = F(10)

(* C9: cut_segment_fragment returns Ok(None) whenever the cut coordinate   *)
(* lies outside [fragment.lt, fragment.rb] on the cut axis and whenever    *)
(* the fragment's extent on the cut axis is below KDTREE_CUT_LIMIT, on     *)
(* both axes and for every segment.                                        *)
C9_NoneOutsideOrBelowLimit ==
    (Returned /\ (CutOutside \/ ExtentBelowLimit)) => result.tag = "None"

\* None is returned for a cut before lt on a fragment that is wide enough.
C9_Witness ==
    /\ result.tag = "None"
    /\ ~ExtentBelowLimit
    /\ FLt(Coord(cut_point, cut_axis), Coord(fragment.lt, cut_axis))

RECURSIVE SumCoord(_, _)
SumCoord(ps, axis) ==
    IF ps = <<>> THEN 0 ELSE Coord(Head(ps), axis)[1] + SumCoord(Tail(ps), axis)

(* C10: cut_point returns None exactly when the point sequence is empty;   *)
(* otherwise the returned point's coordinate on the cut axis is the        *)
(* arithmetic mean of that coordinate over the sequence (x = 5 for X over  *)
(* [(0,0), (10,0), (5,10)]).                                               *)
C10_MeanOrNone ==
    mid.tag # "Pending" =>
        /\ mid.tag = "None" <=> points = <<>>
        /\ points # <<>> =>
              Coord(mid.v[1], cut_axis) = Norm(SumCoord(points, cut_axis), Len(points))
        /\ (points = <<P(0, 0), P(10, 0), P(5, 10)>> /\ cut_axis = "X")
              => mid.v[1].x = F(5)

C10_Witness ==
    /\ points = <<P(0, 0), P(10, 0), P(5, 10)>>
    /\ cut_axis = "X"
    /\ mid.tag = "Some"
    /\ mid.v[1].x = F(5)

\* The state holds the bounding volume of the shape, as get_bounding_volume
\* returned it, before any cut.
AtRoot == result = Pending /\ fragment = get_bounding_volume(shape)

Contains(bv, p) ==
    /\ FLe(bv.lt.x, p.x) /\ FLe(p.x, bv.rb.x)
    /\ FLe(bv.lt.y, p.y) /\ FLe(p.y, bv.rb.y)

\* Box a lies within box b.
Within(a, b) == Contains(b, a.lt) /\ Contains(b, a.rb)

(* C11: get_bounding_volume(S) contains both endpoints of S and is the     *)
(* minimal axis-aligned box doing so: lt is the componentwise minimum and  *)
(* rb the componentwise maximum of src and dst; for src = dst it is the    *)
(* zero-area box at that point.                                            *)
C11_MinimalBoundingVolume ==
    AtRoot =>
        /\ fragment.lt = Point(FMin(shape.src.x, shape.dst.x), FMin(shape.src.y, shape.dst.y))
        /\ fragment.rb = Point(FMax(shape.src.x, shape.dst.x), FMax(shape.src.y, shape.dst.y))
        /\ Contains(fragment, shape.src)
        /\ Contains(fragment, shape.dst)
        /\ \A bv \in BoundsOver(GridPoints) :
              (Contains(bv, shape.src) /\ Contains(bv, shape.dst)) => Within(fragment, bv)
        /\ shape.src = shape.dst => (fragment.lt = shape.src /\ fragment.rb = shape.src)

\* The bounding volume of a segment whose corners mix src and dst
\* (src.x > dst.x, src.y < dst.y).
C11_Witness ==
    /\ AtRoot
    /\ FGt(shape.src.x, shape.dst.x)
    /\ FLt(shape.src.y, shape.dst.y)
    /\ fragment = Bound(Point(shape.dst.x, shape.src.y), Point(shape.src.x, shape.dst.y))

\* p lies on the segment s: collinear with src and dst, and between them.
OnSegment(s, p) ==
    /\ FMul(FSub(p.x, s.src.x), FSub(s.dst.y, s.src.y))
          = FMul(FSub(p.y, s.src.y), FSub(s.dst.x, s.src.x))
    /\ FLe(FMin(s.src.x, s.dst.x), p.x) /\ FLe(p.x, FMax(s.src.x, s.dst.x))
    /\ FLe(FMin(s.src.y, s.dst.y), p.y) /\ FLe(p.y, FMax(s.src.y, s.dst.y))

\* bv is the bounding box of a part of the segment s: a part of a segment
\* runs between two opposite corners of its bounding box.
TightlyBounds(bv, s) ==
    \/ OnSegment(s, bv.lt) /\ OnSegment(s, bv.rb)
    \/ /\ OnSegment(s, Point(bv.lt.x, bv.rb.y))
       /\ OnSegment(s, Point(bv.rb.x, bv.lt.y))

(* C12: starting from get_bounding_volume(segment) and after any sequence  *)
(* of successful splits on either axis, each returned child is exactly the *)
(* bounding box of the part of the segment on its side of the cuts, so no  *)
(* point of that part falls outside it.                                    *)
C12_ChildrenTightlyBound ==
    result.tag = "Some" =>
        \A i \in 1..2 : TightlyBounds(result.pair[i], shape)

RECURSIVE MinCoord(_, _)
MinCoord(ps, axis) ==
    IF Len(ps) = 1 THEN Coord(ps[1], axis)
    ELSE FMin(Coord(Head(ps), axis), MinCoord(Tail(ps), axis))

RECURSIVE MaxCoord(_, _)
MaxCoord(ps, axis) ==
    IF Len(ps) = 1 THEN Coord(ps[1], axis)
    ELSE FMax(Coord(Head(ps), axis), MaxCoord(Tail(ps), axis))

(* C13: after any sequence of cut_point calls on the same cutter,          *)
(* point_min and point_max are the componentwise minimum and maximum of    *)
(* the points given to the most recent call only, and both are None when   *)
(* that call received an empty sequence, whatever earlier calls received.  *)
C13_TrackingFromLastCall ==
    mid.tag # "Pending" =>
        /\ points = <<>> => (point_min = <<>> /\ point_max = <<>>)
        /\ points # <<>> =>
              /\ point_min = <<Point(MinCoord(points, "X"), MinCoord(points, "Y"))>>
              /\ point_max = <<Point(MaxCoord(points, "X"), MaxCoord(points, "Y"))>>

\* Two earlier calls tracked two points (their cuts are recorded), and the
\* most recent call, on an empty sequence, left no minimum and no maximum.
C13_Witness ==
    /\ Len(cuts) = 2
    /\ cuts[1][1] # cuts[2][1]
    /\ mid.tag = "None"
    /\ points = <<>>
    /\ point_min = <<>>
    /\ point_max = <<>>

====
